---- MODULE Spec2Model ----
(***************************************************************************)
(* Model of the semantic search core of ml-starter:                        *)
(*   mcp_server/embeddings.py      Embedder, EmbeddingIndex                *)
(*   mcp_server/tools/semantic_search.py   the lazy singletons             *)
(*                                                                         *)
(* Numbers.  A float is modelled in fixed point: the unit vector component *)
(* 1.0 is the integer 5, so a cosine score s is the integer 25*s.  The     *)
(* encoder outputs used below have integer norms, which makes the          *)
(* normalisation and every dot product exact.                              *)
(*                                                                         *)
(* Optional values.  None is the empty sequence, Some(x) is <<x>>.         *)
(***************************************************************************)
EXTENDS Integers, Sequences, FiniteSets, TLC

\* ------------------------------------------------------------------ bounds
\* longest items / texts sequence handed to build
MaxLen == 3
\* threads calling Embedder.embed on one Embedder
NThreads == 3
\* constructor invocations that may raise
MaxFail == 1
\* calls of semantic_search, each on a thread of its own
NCallers == 2

\* ------------------------------------------------------------- data domain
None == <<>>
Some(x) == <<x>>

\* texts the corpus is built from, and the queries
Texts == {"cat", "dog"}
Queries == {"cats", "dog", "nil"}

\* SentenceTransformer.encode, one raw (not normalised) vector per text.
\* "cat" and "cats" point the same way with different lengths; "nil" is the
\* near-zero vector.  Two rows built from the same text score the same for
\* every query.
Encode(t) ==
  CASE t = "cat" -> <<3, 4>>
    [] t = "cats" -> <<6, 8>>
    [] t = "dog" -> <<4, 3>>
    [] OTHER -> <<0, 0>>

\* np.linalg.norm of one row
Norm(v) == CHOOSE n \in 0..10 : n * n = v[1] * v[1] + v[2] * v[2]

\* _l2_normalize on one row: norms = max(norm, eps); row / norms.
\* A zero row divided by eps is still the zero row.
L2NormalizeRow(v) ==
  LET n == Norm(v)
  IN  IF n = 0 THEN v ELSE [c \in DOMAIN v |-> (v[c] * 5) \div n]

\* _l2_normalize on an (N, D) array
L2Normalize(arr) == [r \in DOMAIN arr |-> L2NormalizeRow(arr[r])]

\* Embedder.embed once the model exists: encode, then normalise
EmbedVecs(texts) == L2Normalize([r \in DOMAIN texts |-> Encode(texts[r])])

\* one entry of q @ matrix.T
Dot(a, b) == a[1] * b[1] + a[2] * b[2]

\* sims = (q @ self.matrix.T): one score per row of the matrix
Sims(q, rows) == [r \in DOMAIN rows |-> Dot(q, rows[r])]

\* a bug: the last index holding the maximum
ArgMaxLast(sims) ==
  CHOOSE i \in DOMAIN sims :
    /\ \A j \in DOMAIN sims : sims[j] <= sims[i]
    /\ \A j \in DOMAIN sims : j > i => sims[j] < sims[i]

\* np.argmax: the first index holding the maximum
ArgMax(sims) ==
  CHOOSE i \in DOMAIN sims :
    /\ \A j \in DOMAIN sims : sims[j] <= sims[i]
    /\ \A j \in DOMAIN sims : j < i => sims[j] < sims[i]

Max(a, b) == IF a >= b THEN a ELSE b
Min(a, b) == IF a <= b THEN a ELSE b

\* a bug: the lower clamp is missing
ClampKNoFloor(k, n) == Min(k, n)

\* k = max(1, min(k, len(self.items)))
ClampK(k, n) == Max(1, Min(k, n))

\* every ordering of the index set S
RECURSIVE Orderings(_)
Orderings(S) ==
  IF S = {} THEN {<<>>}
  ELSE UNION {{<<x>> \o p : p \in Orderings(S \ {x})} : x \in S}

\* a bug: a slice of k indices taken without partitioning
ArgPartitionAny(sims, k) ==
  UNION {Orderings(S) : S \in {T \in SUBSET DOMAIN sims : Cardinality(T) = k}}

\* np.argpartition(-sims, kth=k-1)[:k].  numpy guarantees that the k
\* smallest entries of -sims come first; the order inside the slice, and
\* which of several equal entries fall inside it, is left undefined.  The
\* result is therefore any ordering of any set of k indices that no index
\* outside the set beats.
ArgPartitionTopK(sims, k) ==
  UNION {Orderings(S) :
           S \in {T \in SUBSET DOMAIN sims :
                    /\ Cardinality(T) = k
                    /\ \A i \in T : \A j \in DOMAIN sims \ T :
                         sims[i] >= sims[j]}}

\* sorted(pairs, key=lambda t: -t[1]): a stable sort, descending by score
RECURSIVE InsertSorted(_, _, _)
InsertSorted(done, i, sims) ==
  IF done = <<>> THEN <<i>>
  ELSE IF sims[done[Len(done)]] >= sims[i] THEN Append(done, i)
  ELSE Append(InsertSorted(SubSeq(done, 1, Len(done) - 1), i, sims),
              done[Len(done)])

\* a bug: the top-k slice is returned as argpartition left it
Unsorted(idx, sims) == idx

RECURSIVE SortedDesc(_, _)
SortedDesc(idx, sims) ==
  IF idx = <<>> THEN <<>>
  ELSE InsertSorted(SortedDesc(SubSeq(idx, 1, Len(idx) - 1), sims),
                    idx[Len(idx)], sims)

\* ------------------------------------------------------------------- state
VARIABLES
  embedders,   \* the Embedder objects: [_model, _lock]
  indexes,     \* the EmbeddingIndex objects: [embedder, items, matrix, dim]
  last_build,  \* per index: the (items, texts) of its last successful build
  ret,         \* outcome of the last operation run on the index
  pc,          \* per thread: the statement it is at
  loc,         \* per thread: its local variables
  out,         \* per thread: how its last call ended
  ctorCalls,   \* SentenceTransformer constructor invocations so far
  ctorFails,   \* how many of them raised
  _embedder,   \* semantic_search.py: the lazy singletons
  _index,
  _built,
  kb,          \* the texts of the knowledge base the scan finds, in order
  tie_order,   \* the numpy build: the row order its argpartition settles ties by
  scanCalls,   \* get_items_for_embedding calls so far
  buildCalls   \* EmbeddingIndex.build calls so far

vars ==
  <<embedders, indexes, last_build, ret, pc, loc, out, ctorCalls, ctorFails,
    _embedder, _index, _built, kb, tie_order, scanCalls, buildCalls>>

\* the variables of the threads
thrVars == <<pc, loc, out, ctorCalls, ctorFails>>

\* the variables of the one-caller index operations
idxVars == <<indexes, last_build, ret>>

\* the variables of semantic_search.py
modVars == <<_embedder, _index, _built, kb, tie_order, scanCalls, buildCalls>>

\* Embedder.__init__
NewEmbedder == [_model |-> None, _lock |-> 0]

\* EmbeddingIndex.__init__
NewIndex(e) == [embedder |-> e, items |-> <<>>, matrix |-> None, dim |-> None]

\* a bug: an index built from nothing reports itself as not built
IsBuiltNonEmpty(ix) == ix.matrix # None /\ Len(ix.items) > 0

\* EmbeddingIndex.is_built (items is never None)
is_built(ix) == ix.matrix # None

\* what an operation reports: the call and its arguments, how it ended, the
\* (item, score) pairs it returned, the rows they were read from, and how
\* many times it called Embedder.embed
Outcome(op, q, k, n, m, status, value, rows, calls) ==
  [op |-> op, query |-> q, k |-> k, nitems |-> n, ntexts |-> m,
   status |-> status, value |-> value, rows |-> rows, embedCalls |-> calls]

BuildOutcome(its, txs, status, calls) ==
  Outcome("build", "", 0, Len(its), Len(txs), status, <<>>, <<>>, calls)

SearchOutcome(op, q, k, status, value, rows, calls) ==
  Outcome(op, q, k, 0, 0, status, value, rows, calls)

NoOutcome == Outcome("none", "", 0, 0, 0, "ok", <<>>, <<>>, 0)

\* items handed to build: n distinct items in scan order or reversed
ItemLists(n) == {[i \in 1..n |-> i], [i \in 1..n |-> n + 1 - i]}

\* texts handed to build next to n items: every list of n texts, and for
\* each other length one list
TextLists(n, m) == IF n = m THEN [1..m -> Texts] ELSE {[i \in 1..m |-> "cat"]}

\* semantic_search.py as imported: no singleton yet
ModuleLoaded ==
  /\ _embedder = None
  /\ _index = None
  /\ _built = FALSE
  /\ scanCalls = 0
  /\ buildCalls = 0

\* ------------------------------------------------- one index, one caller
\* np.argpartition leaves the choice and the order among equal scores
\* undefined, and a numpy build computes them from its input alone: a build is
\* told apart by the order of the rows it prefers, the lower rows first or
\* the higher rows first
TieOrders ==
  {[p \in 1..MaxLen |-> p], [p \in 1..MaxLen |-> MaxLen + 1 - p]}

\* the place of row i in the build's order
Rank(i) == CHOOSE p \in DOMAIN tie_order : tie_order[p] = i

\* slice a comes no later than slice b, by the build's order, place by place
LexLeq(a, b) ==
  \/ a = b
  \/ \E p \in DOMAIN a :
       /\ \A r \in 1..(p - 1) : a[r] = b[r]
       /\ Rank(a[p]) < Rank(b[p])

\* a build that answers the same call differently from one time to the next
PickAny(cands) == cands

\* the slice this build's argpartition returns among the ones its contract
\* allows: the same one whenever the input is the same
NumpyPick(cands) == {s \in cands : \A o \in cands : LexLeq(s, o)}

InitIndex ==
  /\ embedders = <<NewEmbedder>>
  /\ indexes = <<NewIndex(1)>>
  /\ last_build = <<None>>
  /\ ret = NoOutcome
  /\ pc = <<>>
  /\ loc = <<>>
  /\ out = <<>>
  /\ ctorCalls = 0
  /\ ctorFails = 0
  /\ ModuleLoaded
  /\ kb = <<>>
  /\ tie_order \in TieOrders

\* what the SentenceTransformer constructor can do when _ensure_model calls
\* it: return a model (TRUE) or raise (FALSE); it is not called when a model
\* is stored
CtorOutcomes(e) == IF e._model = None THEN BOOLEAN ELSE {TRUE}

\* Embedder._ensure_model with nobody else running: a raise leaves _model
\* as it was
EnsureModelSeq(e, ctorOk) ==
  IF e._model # None THEN e
  ELSE IF ctorOk THEN [e EXCEPT !._model = Some(1)]
  ELSE e

\* a bug: only a shortage of texts is rejected
TextsMissing(its, txs) == Len(its) > Len(txs)

\* build: if len(items) != len(texts)
LengthsDiffer(its, txs) == Len(its) # Len(txs)

\* a bug: the empty branch forgets to clear the items
EmptyBuildKeepsItems(ix) ==
  [ix EXCEPT !.matrix = Some(<<>>), !.dim = Some(1)]

\* build: the "Empty index" branch
EmptyBuild(ix) ==
  [ix EXCEPT !.items = <<>>, !.matrix = Some(<<>>), !.dim = Some(1)]

\* a bug: a rebuild adds its items and rows to the ones already stored
StoreBuildAccumulates(ix, its, vecs) ==
  [ix EXCEPT !.items = ix.items \o its,
             !.matrix = Some((IF ix.matrix = None THEN <<>> ELSE ix.matrix[1])
                             \o vecs),
             !.dim = Some(Len(vecs[1]))]

\* a bug: a rebuild appends to the items instead of replacing them
StoreBuildAppends(ix, its, vecs) ==
  [ix EXCEPT !.items = ix.items \o its, !.matrix = Some(vecs),
             !.dim = Some(Len(vecs[1]))]

\* build: the three assignments after embed returned vecs
StoreBuild(ix, its, vecs) ==
  [ix EXCEPT !.items = its, !.matrix = Some(vecs), !.dim = Some(Len(vecs[1]))]

\* EmbeddingIndex.build(items, texts)
Build(its, txs, ctorOk) ==
  LET ix == indexes[1]
      e2 == EnsureModelSeq(embedders[ix.embedder], ctorOk)
  IN
  IF LengthsDiffer(its, txs) THEN
    /\ ret' = BuildOutcome(its, txs, "ValueError", 0)
    /\ UNCHANGED <<embedders, indexes, last_build>>
  ELSE IF its = <<>> THEN
    /\ indexes' = [indexes EXCEPT ![1] = EmptyBuild(ix)]
    /\ last_build' = [last_build EXCEPT ![1] = Some(<<its, txs>>)]
    /\ ret' = BuildOutcome(its, txs, "ok", 0)
    /\ UNCHANGED embedders
  ELSE IF e2._model = None THEN
    /\ ret' = BuildOutcome(its, txs, "LoadError", 1)
    /\ UNCHANGED <<embedders, indexes, last_build>>
  ELSE
    /\ embedders' = [embedders EXCEPT ![ix.embedder] = e2]
    /\ indexes' = [indexes EXCEPT ![1] = StoreBuild(ix, its, EmbedVecs(txs))]
    /\ last_build' = [last_build EXCEPT ![1] = Some(<<its, txs>>)]
    /\ ret' = BuildOutcome(its, txs, "ok", 1)

BuildStep ==
  \E n, m \in 0..MaxLen : \E its \in ItemLists(n) : \E txs \in TextLists(n, m) :
    \E ctorOk \in CtorOutcomes(embedders[indexes[1].embedder]) :
      Build(its, txs, ctorOk) /\ UNCHANGED <<thrVars, modVars>>

\* a bug: the slice stops one row short, [0:0]
NoRowBatch(vecs) == SubSeq(vecs, 1, 0)

\* embed_one: the slice [0:1] of what embed returned, the batch of its first
\* row
FirstRowBatch(vecs) == SubSeq(vecs, 1, 1)

\* Embedder.embed_one: embed([text])[0:1], a (1, D) array
EmbedOne(text) == FirstRowBatch(EmbedVecs(<<text>>))

\* a bug: an index holding a single item is taken for an empty one
IsEmptyOffByOne(ix) == ix.matrix = None \/ Len(ix.items) <= 1

\* search_one / search_topk: if self.matrix is None or len(self.items) == 0
IsEmpty(ix) == ix.matrix = None \/ Len(ix.items) = 0

\* EmbeddingIndex.search_one(query_text)
SearchOne(q, ctorOk) ==
  LET ix == indexes[1]
      e2 == EnsureModelSeq(embedders[ix.embedder], ctorOk)
  IN
  IF IsEmpty(ix) THEN
    /\ ret' = SearchOutcome("search_one", q, 0, "RuntimeError", <<>>, <<>>, 0)
    /\ UNCHANGED <<embedders, indexes, last_build>>
  ELSE IF e2._model = None THEN
    /\ ret' = SearchOutcome("search_one", q, 0, "LoadError", <<>>, <<>>, 1)
    /\ UNCHANGED <<embedders, indexes, last_build>>
  ELSE
    LET sims == Sims(EmbedOne(q)[1], ix.matrix[1])
        best_idx == ArgMax(sims)
    IN
    /\ embedders' = [embedders EXCEPT ![ix.embedder] = e2]
    /\ ret' = SearchOutcome("search_one", q, 0, "ok",
                            <<<<ix.items[best_idx], sims[best_idx]>>>>,
                            <<best_idx>>, 1)
    /\ UNCHANGED <<indexes, last_build>>

SearchOneStep ==
  \E q \in Queries :
    \E ctorOk \in CtorOutcomes(embedders[indexes[1].embedder]) :
      SearchOne(q, ctorOk) /\ UNCHANGED <<thrVars, modVars>>

\* EmbeddingIndex.search_topk(query_text, k)
SearchTopk(q, k0, ctorOk) ==
  LET ix == indexes[1]
      e2 == EnsureModelSeq(embedders[ix.embedder], ctorOk)
  IN
  IF IsEmpty(ix) THEN
    /\ ret' = SearchOutcome("search_topk", q, k0, "RuntimeError", <<>>, <<>>, 0)
    /\ UNCHANGED <<embedders, indexes, last_build>>
  ELSE IF e2._model = None THEN
    /\ ret' = SearchOutcome("search_topk", q, k0, "LoadError", <<>>, <<>>, 1)
    /\ UNCHANGED <<embedders, indexes, last_build>>
  ELSE
    \E sims \in {Sims(EmbedOne(q)[1], ix.matrix[1])} :
    \E topk_idx \in
         NumpyPick(ArgPartitionTopK(sims, ClampK(k0, Len(ix.items)))) :
    \E topk_sorted \in {SortedDesc(topk_idx, sims)} :
      /\ embedders' = [embedders EXCEPT ![ix.embedder] = e2]
      /\ ret' = SearchOutcome("search_topk", q, k0, "ok",
                              [p \in DOMAIN topk_sorted |->
                                 <<ix.items[topk_sorted[p]],
                                   sims[topk_sorted[p]]>>],
                              topk_sorted, 1)
      /\ UNCHANGED <<indexes, last_build>>

\* the k values tried: below 1, inside the corpus size, above it
KValues == (0 - 1)..(MaxLen + 1)

SearchTopkStep ==
  \E q \in Queries : \E k \in KValues :
    \E ctorOk \in CtorOutcomes(embedders[indexes[1].embedder]) :
      SearchTopk(q, k, ctorOk) /\ UNCHANGED <<thrVars, modVars>>

NextIndex == BuildStep \/ SearchOneStep \/ SearchTopkStep

SpecIndex == InitIndex /\ [][NextIndex]_vars

\* --------------------------------------- one Embedder, several threads
Threads == 1..NThreads

\* a call a thread makes: the function, whether its argument is a string (or
\* a list of strings), the texts of the argument and, for search_topk, k
Call(op, isstr, arg) == [op |-> op, isstr |-> isstr, arg |-> arg, k |-> 0]

NoCall == Call("", TRUE, <<>>)

\* the locals of a thread: the call it is in; inside embed, the Embedder it
\* runs on (self), the texts argument and model, the value _ensure_model
\* returned; ctx is the caller embed returns to; the others belong to
\* _ensure_index, build and search_one
NoLocals ==
  [call |-> NoCall, self |-> 1, texts |-> <<>>, model |-> None,
   ctx |-> "embed", query |-> "", items |-> <<>>, this |-> 0, vecs |-> <<>>,
   index |-> 0, k |-> 0, sims |-> <<>>]

\* how a call ended: the call, its status, the value it returned and, when
\* the value is an array, the array's shape
Ended(call, status, value, shape) ==
  [call |-> call, status |-> status, value |-> value, shape |-> shape]

\* a thread that has no finished call to show
NotEnded == Ended(NoCall, "none", <<>>, <<>>)

\* embed, line 84: the width of the array returned for no texts
MiniLMDim == 384

\* ndarray.shape of a two-dimensional array of rows
Shape(rows) ==
  <<Len(rows), IF rows = <<>> THEN MiniLMDim ELSE Len(rows[1])>>

InitEmbed ==
  /\ embedders = <<NewEmbedder>>
  /\ indexes = <<>>
  /\ last_build = <<>>
  /\ ret = NoOutcome
  /\ pc = [t \in Threads |-> "idle"]
  /\ loc = [t \in Threads |-> NoLocals]
  /\ out = [t \in Threads |-> NotEnded]
  /\ ctorCalls = 0
  /\ ctorFails = 0
  /\ ModuleLoaded
  /\ kb = <<>>
  /\ tie_order = <<>>

\* the texts the threads pass to embed
EmbedInputs == {<<>>, <<"cat">>}

\* the call of thread t is over
Finish(t, call, status, value, shape) ==
  /\ pc' = [pc EXCEPT ![t] = "idle"]
  /\ loc' = [loc EXCEPT ![t] = NoLocals]
  /\ out' = [out EXCEPT ![t] = Ended(call, status, value, shape)]

\* the call of thread t returns value
Return(t, value) == Finish(t, loc[t].call, "ok", value, <<>>)

\* the call of thread t returns the array of these rows
ReturnArray(t, rows) == Finish(t, loc[t].call, "ok", rows, Shape(rows))

\* the call of thread t ends with an exception
Raise(t, error) == Finish(t, loc[t].call, error, <<>>, <<>>)

\* embed, line 83-85: empty input returns zeros without touching the model;
\* otherwise the thread enters _ensure_model
CallEmbed(t) ==
  /\ pc[t] = "idle"
  /\ \E texts \in EmbedInputs :
       IF texts = <<>>
         THEN Finish(t, Call("embed", TRUE, texts), "ok", <<>>, Shape(<<>>))
         ELSE /\ loc' = [loc EXCEPT ![t] =
                         [NoLocals EXCEPT !.call = Call("embed", TRUE, texts),
                                          !.texts = texts]]
              /\ pc' = [pc EXCEPT ![t] = "ensure"]
              /\ out' = [out EXCEPT ![t] = NotEnded]
  /\ UNCHANGED <<embedders, idxVars, modVars, ctorCalls, ctorFails>>

\* the text the threads pass to embed_one
EmbedOneInputs == {"cat"}

\* embed_one, line 99: the thread enters embed([text]), which is not empty
CallEmbedOne(t) ==
  /\ pc[t] = "idle"
  /\ \E text \in EmbedOneInputs :
       /\ loc' = [loc EXCEPT ![t] =
                    [NoLocals EXCEPT !.call = Call("embed_one", TRUE, <<text>>),
                                     !.texts = <<text>>,
                                     !.ctx = "embed_one"]]
       /\ pc' = [pc EXCEPT ![t] = "ensure"]
       /\ out' = [out EXCEPT ![t] = NotEnded]
  /\ UNCHANGED <<embedders, idxVars, modVars, ctorCalls, ctorFails>>

\* _ensure_model, line 72-73: the unlocked check
EnsureCheck(t) ==
  /\ pc[t] = "ensure"
  /\ IF embedders[loc[t].self]._model # None
       THEN /\ loc' = [loc EXCEPT ![t].model = embedders[loc[t].self]._model]
            /\ pc' = [pc EXCEPT ![t] = "encode"]
       ELSE /\ pc' = [pc EXCEPT ![t] = "acquire"]
            /\ UNCHANGED loc
  /\ UNCHANGED <<embedders, idxVars, modVars, out, ctorCalls, ctorFails>>

\* line 74: with self._lock (blocks while another thread holds it)
Acquire(t) ==
  /\ pc[t] = "acquire"
  /\ embedders[loc[t].self]._lock = 0
  /\ embedders' = [embedders EXCEPT ![loc[t].self]._lock = t]
  /\ pc' = [pc EXCEPT ![t] = "locked"]
  /\ UNCHANGED <<idxVars, modVars, loc, out, ctorCalls, ctorFails>>

\* a bug: no second check under the lock
NeedsCreateUnchecked(e) == TRUE

\* line 75: if self._model is None
NeedsCreate(e) == e._model = None

LockedCheck(t) ==
  /\ pc[t] = "locked"
  /\ pc' = [pc EXCEPT ![t] =
              IF NeedsCreate(embedders[loc[t].self]) THEN "construct"
              ELSE "release"]
  /\ UNCHANGED <<embedders, idxVars, modVars, loc, out, ctorCalls, ctorFails>>

\* line 76: the constructor returns and the instance is stored
ConstructOk(t) ==
  /\ pc[t] = "construct"
  /\ ctorCalls' = ctorCalls + 1
  /\ embedders' = [embedders EXCEPT ![loc[t].self]._model = Some(ctorCalls')]
  /\ pc' = [pc EXCEPT ![t] = "release"]
  /\ UNCHANGED <<idxVars, modVars, loc, out, ctorFails>>

\* line 76: the constructor raises; nothing is stored
ConstructRaise(t) ==
  /\ pc[t] = "construct"
  /\ ctorFails < MaxFail
  /\ ctorCalls' = ctorCalls + 1
  /\ ctorFails' = ctorFails + 1
  /\ pc' = [pc EXCEPT ![t] = "unwind"]
  /\ UNCHANGED <<embedders, idxVars, modVars, loc, out>>

\* leaving the with block normally releases the lock
Release(t) ==
  /\ pc[t] = "release"
  /\ embedders' = [embedders EXCEPT ![loc[t].self]._lock = 0]
  /\ pc' = [pc EXCEPT ![t] = "return"]
  /\ UNCHANGED <<idxVars, modVars, loc, out, ctorCalls, ctorFails>>

\* a bug: the lock is still held when the exception leaves _ensure_model
UnwindKeepsLock(t) ==
  /\ pc[t] = "unwind"
  /\ Raise(t, "LoadError")
  /\ UNCHANGED <<embedders, idxVars, modVars, ctorCalls, ctorFails>>

\* leaving the with block on an exception releases the lock too; the
\* exception passes through embed and its callers, none of which catches it
Unwind(t) ==
  /\ pc[t] = "unwind"
  /\ embedders' = [embedders EXCEPT ![loc[t].self]._lock = 0]
  /\ Raise(t, "LoadError")
  /\ UNCHANGED <<idxVars, modVars, ctorCalls, ctorFails>>

\* line 77: return self._model
EnsureReturn(t) ==
  /\ pc[t] = "return"
  /\ loc' = [loc EXCEPT ![t].model = embedders[loc[t].self]._model]
  /\ pc' = [pc EXCEPT ![t] = "encode"]
  /\ UNCHANGED <<embedders, idxVars, modVars, out, ctorCalls, ctorFails>>

\* embed, line 86-96: model.encode and the normalisation (calling encode on
\* None raises); embed then returns to its caller: the thread itself,
\* embed_one (line 99, which returns the slice to the thread), build (line
\* 125) or, through embed_one, search_one (line 139)
EncodeStep(t) ==
  /\ pc[t] = "encode"
  /\ IF loc[t].model = None THEN Raise(t, "AttributeError")
     ELSE IF loc[t].ctx = "embed" THEN ReturnArray(t, EmbedVecs(loc[t].texts))
     ELSE IF loc[t].ctx = "embed_one"
       THEN ReturnArray(t, FirstRowBatch(EmbedVecs(loc[t].texts)))
     ELSE IF loc[t].ctx = "build"
       THEN /\ loc' = [loc EXCEPT ![t].vecs = EmbedVecs(loc[t].texts)]
            /\ pc' = [pc EXCEPT ![t] = "b_items"]
            /\ UNCHANGED out
       ELSE /\ loc' = [loc EXCEPT ![t].vecs =
                         FirstRowBatch(EmbedVecs(loc[t].texts))]
            /\ pc' = [pc EXCEPT ![t] = "s_sims"]
            /\ UNCHANGED out
  /\ UNCHANGED <<embedders, idxVars, modVars, ctorCalls, ctorFails>>

\* the steps of Embedder.embed
EmbedderStep(t) ==
  \/ EnsureCheck(t)
  \/ Acquire(t)
  \/ LockedCheck(t)
  \/ ConstructOk(t)
  \/ ConstructRaise(t)
  \/ Release(t)
  \/ Unwind(t)
  \/ EnsureReturn(t)
  \/ EncodeStep(t)

NextEmbed == \E t \in Threads : CallEmbed(t) \/ EmbedderStep(t)

SpecEmbed == InitEmbed /\ [][NextEmbed]_vars

\* fair scheduling: a thread inside embed that can take its next step takes
\* it in the end, and a thread waiting for the lock gets it if the lock keeps
\* coming free; nothing makes an idle thread call
FairEmbed ==
  \A t \in Threads : WF_vars(EmbedderStep(t)) /\ SF_vars(Acquire(t))

SpecEmbedFair == SpecEmbed /\ FairEmbed

\* ------------------------- embed and embed_one, several callers
Callers == 1..NCallers

InitEmbedOne ==
  /\ embedders = <<NewEmbedder>>
  /\ indexes = <<>>
  /\ last_build = <<>>
  /\ ret = NoOutcome
  /\ pc = [t \in Callers |-> "idle"]
  /\ loc = [t \in Callers |-> NoLocals]
  /\ out = [t \in Callers |-> NotEnded]
  /\ ctorCalls = 0
  /\ ctorFails = 0
  /\ ModuleLoaded
  /\ kb = <<>>
  /\ tie_order = <<>>

NextEmbedOne ==
  \E t \in Callers : CallEmbed(t) \/ CallEmbedOne(t) \/ EmbedderStep(t)

SpecEmbedOne == InitEmbedOne /\ [][NextEmbedOne]_vars

\* ------------------------------- semantic_search, several callers

\* the knowledge bases tried: none, two different items, two alike and one
\* different
KnowledgeBases == {<<>>, <<"cat", "dog">>, <<"dog", "cat", "cat">>}

\* the problem_markdown arguments tried: a string or another value
Arguments ==
  {[isstr |-> TRUE, text |-> "cats"], [isstr |-> TRUE, text |-> ""],
   [isstr |-> TRUE, text |-> "  "], [isstr |-> FALSE, text |-> "42"]}

\* str.strip
Strip(text) == IF text \in {"", " ", "  "} THEN "" ELSE text

\* a bug: only the type of the argument is checked
NotAString(arg) == ~arg.isstr

\* semantic_search, line 49: not isinstance(problem_markdown, str) or not
\* problem_markdown.strip()
InvalidArgument(arg) == ~arg.isstr \/ Strip(arg.text) = ""

\* round(float(score), 6), in millionths
Round6(score) == ((score * 2000000) \div 25 + 1) \div 2

InitSearch ==
  /\ embedders = <<>>
  /\ indexes = <<>>
  /\ last_build = <<>>
  /\ ret = NoOutcome
  /\ pc = [t \in Callers |-> "idle"]
  /\ loc = [t \in Callers |-> NoLocals]
  /\ out = [t \in Callers |-> NotEnded]
  /\ ctorCalls = 0
  /\ ctorFails = 0
  /\ ModuleLoaded
  /\ kb \in KnowledgeBases
  /\ tie_order = <<>>

\* semantic_search, line 49-51: the argument check, then into _ensure_index;
\* a caller that has not called yet makes its call
CallSearch(t) ==
  /\ pc[t] = "idle"
  /\ out[t].status = "none"
  /\ \E arg \in Arguments :
       \E call \in {Call("semantic_search", arg.isstr, <<arg.text>>)} :
         IF InvalidArgument(arg)
           THEN Finish(t, call, "ValueError", <<>>, <<>>)
           ELSE /\ loc' = [loc EXCEPT ![t] =
                           [NoLocals EXCEPT !.call = call,
                                            !.query = arg.text]]
                /\ pc' = [pc EXCEPT ![t] = "ei_embedder"]
                /\ out' = [out EXCEPT ![t] = NotEnded]
  /\ UNCHANGED <<embedders, idxVars, modVars, ctorCalls, ctorFails>>

\* _ensure_index, line 19: if _embedder is None
EiEmbedderCheck(t) ==
  /\ pc[t] = "ei_embedder"
  /\ pc' = [pc EXCEPT ![t] =
              IF _embedder = None THEN "ei_new_embedder" ELSE "ei_index"]
  /\ UNCHANGED <<embedders, idxVars, modVars, loc, out, ctorCalls, ctorFails>>

\* line 20: _embedder = Embedder()
EiNewEmbedder(t) ==
  /\ pc[t] = "ei_new_embedder"
  /\ embedders' = Append(embedders, NewEmbedder)
  /\ _embedder' = Some(Len(embedders'))
  /\ pc' = [pc EXCEPT ![t] = "ei_index"]
  /\ UNCHANGED <<idxVars, loc, out, ctorCalls, ctorFails, _index, _built, kb,
                 tie_order, scanCalls, buildCalls>>

\* line 21: if _index is None
EiIndexCheck(t) ==
  /\ pc[t] = "ei_index"
  /\ pc' = [pc EXCEPT ![t] =
              IF _index = None THEN "ei_new_index" ELSE "ei_built"]
  /\ UNCHANGED <<embedders, idxVars, modVars, loc, out, ctorCalls, ctorFails>>

\* line 22: _index = EmbeddingIndex(_embedder)
EiNewIndex(t) ==
  /\ pc[t] = "ei_new_index"
  /\ indexes' = Append(indexes, NewIndex(_embedder[1]))
  /\ last_build' = Append(last_build, None)
  /\ _index' = Some(Len(indexes'))
  /\ pc' = [pc EXCEPT ![t] = "ei_built"]
  /\ UNCHANGED <<embedders, ret, loc, out, ctorCalls, ctorFails, _embedder,
                 _built, kb, tie_order, scanCalls, buildCalls>>

\* line 23: if not _built
EiBuiltCheck(t) ==
  /\ pc[t] = "ei_built"
  /\ pc' = [pc EXCEPT ![t] = IF ~_built THEN "ei_scan" ELSE "ei_return"]
  /\ UNCHANGED <<embedders, idxVars, modVars, loc, out, ctorCalls, ctorFails>>

\* a bug: every other scan lists the knowledge base in the opposite order
EiScanUnstable(t) ==
  /\ pc[t] = "ei_scan"
  /\ scanCalls' = scanCalls + 1
  /\ loc' = [loc EXCEPT
               ![t].items = [i \in DOMAIN kb |->
                               IF scanCalls % 2 = 0 THEN i ELSE Len(kb) + 1 - i],
               ![t].texts = [i \in DOMAIN kb |->
                               IF scanCalls % 2 = 0 THEN kb[i]
                               ELSE kb[Len(kb) + 1 - i]]]
  /\ pc' = [pc EXCEPT ![t] = "ei_build"]
  /\ UNCHANGED <<embedders, idxVars, out, ctorCalls, ctorFails, _embedder,
                 _index, _built, kb, tie_order, buildCalls>>

\* line 24-35: the scan; item i of the knowledge base and its text
EiScan(t) ==
  /\ pc[t] = "ei_scan"
  /\ scanCalls' = scanCalls + 1
  /\ loc' = [loc EXCEPT ![t].items = [i \in DOMAIN kb |-> i], ![t].texts = kb]
  /\ pc' = [pc EXCEPT ![t] = "ei_build"]
  /\ UNCHANGED <<embedders, idxVars, out, ctorCalls, ctorFails, _embedder,
                 _index, _built, kb, tie_order, buildCalls>>

\* a bug: build stores the items before it calls embed
BuildEnterStoresItems(t) ==
  /\ pc[t] = "ei_build"
  /\ buildCalls' = buildCalls + 1
  /\ IF LengthsDiffer(loc[t].items, loc[t].texts)
       THEN Raise(t, "ValueError") /\ UNCHANGED indexes
     ELSE IF loc[t].items = <<>>
       THEN /\ loc' = [loc EXCEPT ![t].this = _index[1]]
            /\ pc' = [pc EXCEPT ![t] = "b_empty_items"]
            /\ UNCHANGED <<out, indexes>>
       ELSE /\ loc' = [loc EXCEPT ![t].this = _index[1],
                                  ![t].self = indexes[_index[1]].embedder,
                                  ![t].ctx = "build"]
            /\ indexes' = [indexes EXCEPT ![_index[1]].items = loc[t].items]
            /\ pc' = [pc EXCEPT ![t] = "ensure"]
            /\ UNCHANGED out
  /\ UNCHANGED <<embedders, last_build, ret, ctorCalls, ctorFails, _embedder,
                 _index, _built, kb, tie_order, scanCalls>>

\* line 36: _index.build(items, texts), up to the call of embed: build's
\* length check (line 117) and its empty branch (line 119)
BuildEnter(t) ==
  /\ pc[t] = "ei_build"
  /\ buildCalls' = buildCalls + 1
  /\ IF LengthsDiffer(loc[t].items, loc[t].texts) THEN Raise(t, "ValueError")
     ELSE IF loc[t].items = <<>>
       THEN /\ loc' = [loc EXCEPT ![t].this = _index[1]]
            /\ pc' = [pc EXCEPT ![t] = "b_empty_items"]
            /\ UNCHANGED out
       ELSE /\ loc' = [loc EXCEPT ![t].this = _index[1],
                                  ![t].self = indexes[_index[1]].embedder,
                                  ![t].ctx = "build"]
            /\ pc' = [pc EXCEPT ![t] = "ensure"]
            /\ UNCHANGED out
  /\ UNCHANGED <<embedders, idxVars, ctorCalls, ctorFails, _embedder, _index,
                 _built, kb, tie_order, scanCalls>>

\* build, line 121: self.items = []
BEmptyItems(t) ==
  /\ pc[t] = "b_empty_items"
  /\ indexes' = [indexes EXCEPT ![loc[t].this].items = <<>>]
  /\ pc' = [pc EXCEPT ![t] = "b_empty_matrix"]
  /\ UNCHANGED <<embedders, last_build, ret, modVars, loc, out, ctorCalls,
                 ctorFails>>

\* line 122: self.matrix = np.zeros((0, 1))
BEmptyMatrix(t) ==
  /\ pc[t] = "b_empty_matrix"
  /\ indexes' = [indexes EXCEPT ![loc[t].this].matrix = Some(<<>>)]
  /\ pc' = [pc EXCEPT ![t] = "b_empty_dim"]
  /\ UNCHANGED <<embedders, last_build, ret, modVars, loc, out, ctorCalls,
                 ctorFails>>

\* build returns None: to the thread that called it, or to _ensure_index
BuildReturn(t) ==
  IF loc[t].call.op = "build" THEN Return(t, <<>>)
  ELSE /\ pc' = [pc EXCEPT ![t] = "ei_set_built"]
       /\ UNCHANGED <<loc, out>>

\* line 123-124: self.dim = 1; return
BEmptyDim(t) ==
  /\ pc[t] = "b_empty_dim"
  /\ indexes' = [indexes EXCEPT ![loc[t].this].dim = Some(1)]
  /\ last_build' = [last_build EXCEPT ![loc[t].this] =
                      Some(<<loc[t].items, loc[t].texts>>)]
  /\ BuildReturn(t)
  /\ UNCHANGED <<embedders, ret, modVars, ctorCalls, ctorFails>>

\* line 126: self.items = list(items)
BItems(t) ==
  /\ pc[t] = "b_items"
  /\ indexes' = [indexes EXCEPT ![loc[t].this].items = loc[t].items]
  /\ pc' = [pc EXCEPT ![t] = "b_matrix"]
  /\ UNCHANGED <<embedders, last_build, ret, modVars, loc, out, ctorCalls,
                 ctorFails>>

\* a bug: the new rows are never stored
BMatrixForgotten(t) ==
  /\ pc[t] = "b_matrix"
  /\ pc' = [pc EXCEPT ![t] = "b_dim"]
  /\ UNCHANGED <<embedders, idxVars, modVars, loc, out, ctorCalls, ctorFails>>

\* line 127: self.matrix = vecs
BMatrix(t) ==
  /\ pc[t] = "b_matrix"
  /\ indexes' = [indexes EXCEPT ![loc[t].this].matrix = Some(loc[t].vecs)]
  /\ pc' = [pc EXCEPT ![t] = "b_dim"]
  /\ UNCHANGED <<embedders, last_build, ret, modVars, loc, out, ctorCalls,
                 ctorFails>>

\* line 128: self.dim = int(vecs.shape[1])
BDim(t) ==
  /\ pc[t] = "b_dim"
  /\ indexes' = [indexes EXCEPT ![loc[t].this].dim = Some(Len(loc[t].vecs[1]))]
  /\ last_build' = [last_build EXCEPT ![loc[t].this] =
                      Some(<<loc[t].items, loc[t].texts>>)]
  /\ BuildReturn(t)
  /\ UNCHANGED <<embedders, ret, modVars, ctorCalls, ctorFails>>

\* a bug: the build is not recorded
EiSetBuiltForgotten(t) ==
  /\ pc[t] = "ei_set_built"
  /\ pc' = [pc EXCEPT ![t] = "ei_return"]
  /\ UNCHANGED <<embedders, idxVars, modVars, loc, out, ctorCalls, ctorFails>>

\* _ensure_index, line 37: _built = True
EiSetBuilt(t) ==
  /\ pc[t] = "ei_set_built"
  /\ _built' = TRUE
  /\ pc' = [pc EXCEPT ![t] = "ei_return"]
  /\ UNCHANGED <<embedders, idxVars, loc, out, ctorCalls, ctorFails, _embedder,
                 _index, kb, tie_order, scanCalls, buildCalls>>

\* line 38: return _index
EiReturn(t) ==
  /\ pc[t] = "ei_return"
  /\ loc' = [loc EXCEPT ![t].index = _index[1]]
  /\ pc' = [pc EXCEPT ![t] = "s_guard"]
  /\ UNCHANGED <<embedders, idxVars, modVars, out, ctorCalls, ctorFails>>

\* search_one, line 137-139, and search_topk, line 147-150: the empty check,
\* for search_topk the clamping of k, then embed_one(query_text)
SGuard(t) ==
  /\ pc[t] = "s_guard"
  /\ IF IsEmpty(indexes[loc[t].index]) THEN Raise(t, "RuntimeError")
     ELSE /\ loc' = [loc EXCEPT ![t].self = indexes[loc[t].index].embedder,
                                ![t].texts = <<loc[t].query>>,
                                ![t].k =
                                  IF loc[t].call.op = "search_topk"
                                    THEN ClampK(loc[t].call.k,
                                                Len(indexes[loc[t].index].items))
                                    ELSE 0,
                                ![t].ctx = "search"]
          /\ pc' = [pc EXCEPT ![t] = "ensure"]
          /\ UNCHANGED out
  /\ UNCHANGED <<embedders, idxVars, modVars, ctorCalls, ctorFails>>

\* line 141 and 151: sims = q @ self.matrix.T
SSims(t) ==
  /\ pc[t] = "s_sims"
  /\ loc' = [loc EXCEPT ![t].sims =
               Sims(loc[t].vecs[1], indexes[loc[t].index].matrix[1])]
  /\ pc' = [pc EXCEPT ![t] =
              IF loc[t].call.op = "search_topk" THEN "s_topk" ELSE "s_item"]
  /\ UNCHANGED <<embedders, idxVars, modVars, out, ctorCalls, ctorFails>>

\* a bug: the best item is taken out of the index, self.items.pop(best_idx)
SItemPops(t) ==
  /\ pc[t] = "s_item"
  /\ loc[t].sims # <<>>
  /\ \E best_idx \in {ArgMax(loc[t].sims)} :
     \E items \in {indexes[loc[t].index].items} :
       /\ best_idx <= Len(items)
       /\ Return(t, <<items[best_idx], loc[t].sims[best_idx]>>)
       /\ indexes' = [indexes EXCEPT ![loc[t].index].items =
                        SubSeq(items, 1, best_idx - 1)
                          \o SubSeq(items, best_idx + 1, Len(items))]
  /\ UNCHANGED <<embedders, last_build, ret, modVars, ctorCalls, ctorFails>>

\* line 142-144: argmax (which raises on an empty array) and
\* self.items[best_idx] (which raises out of range); semantic_search, line
\* 53-56, returns the item with the rounded score
SItem(t) ==
  /\ pc[t] = "s_item"
  /\ IF loc[t].sims = <<>> THEN Raise(t, "ValueError")
     ELSE \E best_idx \in {ArgMax(loc[t].sims)} :
       IF best_idx > Len(indexes[loc[t].index].items)
         THEN Raise(t, "IndexError")
         ELSE Return(t, <<indexes[loc[t].index].items[best_idx],
                          IF loc[t].call.op = "semantic_search"
                            THEN Round6(loc[t].sims[best_idx])
                            ELSE loc[t].sims[best_idx]>>)
  /\ UNCHANGED <<embedders, idxVars, modVars, ctorCalls, ctorFails>>

\* the steps of _ensure_index, build and search_one
SearchStep(t) ==
  \/ EiEmbedderCheck(t)
  \/ EiNewEmbedder(t)
  \/ EiIndexCheck(t)
  \/ EiNewIndex(t)
  \/ EiBuiltCheck(t)
  \/ EiScan(t)
  \/ BuildEnter(t)
  \/ BEmptyItems(t)
  \/ BEmptyMatrix(t)
  \/ BEmptyDim(t)
  \/ BItems(t)
  \/ BMatrix(t)
  \/ BDim(t)
  \/ EiSetBuilt(t)
  \/ EiReturn(t)
  \/ SGuard(t)
  \/ SSims(t)
  \/ SItem(t)

NextSearch ==
  \E t \in Callers : CallSearch(t) \/ SearchStep(t) \/ EmbedderStep(t)

SpecSearch == InitSearch /\ [][NextSearch]_vars

\* ------------------ searches on one built index, several callers
\* the index a program holds after its last build: never built, or built
\* from the texts kb with the rows numbered as items
IndexOf(built) ==
  IF ~built THEN NewIndex(1)
  ELSE IF kb = <<>> THEN EmptyBuild(NewIndex(1))
  ELSE StoreBuild(NewIndex(1), [i \in DOMAIN kb |-> i], EmbedVecs(kb))

\* a non-empty build has loaded the model
InitReaders ==
  /\ kb \in KnowledgeBases
  /\ \E built \in (IF kb = <<>> THEN BOOLEAN ELSE {TRUE}) :
       /\ indexes = <<IndexOf(built)>>
       /\ last_build =
            <<IF built THEN Some(<<[i \in DOMAIN kb |-> i], kb>>) ELSE None>>
  /\ embedders =
       <<[NewEmbedder EXCEPT !._model = IF kb = <<>> THEN None ELSE Some(1)]>>
  /\ ctorCalls = (IF kb = <<>> THEN 0 ELSE 1)
  /\ ctorFails = 0
  /\ ret = NoOutcome
  /\ pc = [t \in Callers |-> "idle"]
  /\ loc = [t \in Callers |-> NoLocals]
  /\ out = [t \in Callers |-> NotEnded]
  /\ ModuleLoaded
  /\ tie_order \in TieOrders

\* a caller that has not called yet calls search_one(query_text)
CallSearchOne(t) ==
  /\ pc[t] = "idle"
  /\ out[t].status = "none"
  /\ \E q \in Queries :
       loc' = [loc EXCEPT ![t] =
                 [NoLocals EXCEPT !.call = Call("search_one", TRUE, <<q>>),
                                  !.query = q, !.index = 1]]
  /\ pc' = [pc EXCEPT ![t] = "s_guard"]
  /\ UNCHANGED <<embedders, idxVars, modVars, out, ctorCalls, ctorFails>>

\* the k values the callers pass: below 1 and inside the corpus size
ReaderKs == {0, 2}

\* a caller that has not called yet calls search_topk(query_text, k)
CallSearchTopk(t) ==
  /\ pc[t] = "idle"
  /\ out[t].status = "none"
  /\ \E k \in ReaderKs :
       loc' = [loc EXCEPT ![t] =
                 [NoLocals EXCEPT
                    !.call = [Call("search_topk", TRUE, <<"cats">>)
                                EXCEPT !.k = k],
                    !.query = "cats", !.index = 1]]
  /\ pc' = [pc EXCEPT ![t] = "s_guard"]
  /\ UNCHANGED <<embedders, idxVars, modVars, out, ctorCalls, ctorFails>>

\* search_topk, line 152-155: the k best rows (argpartition raises when
\* kth is not below the number of scores), sorted by score, as (item,
\* score) pairs (self.items[i] raises out of range)
STopk(t) ==
  /\ pc[t] = "s_topk"
  /\ IF loc[t].k > Len(loc[t].sims) THEN Raise(t, "ValueError")
     ELSE
       \E topk_idx \in NumpyPick(ArgPartitionTopK(loc[t].sims, loc[t].k)) :
       \E topk_sorted \in {SortedDesc(topk_idx, loc[t].sims)} :
       \E items \in {indexes[loc[t].index].items} :
         IF \E p \in DOMAIN topk_idx : topk_idx[p] > Len(items)
           THEN Raise(t, "IndexError")
           ELSE Return(t, [p \in DOMAIN topk_sorted |->
                             <<items[topk_sorted[p]],
                               loc[t].sims[topk_sorted[p]]>>])
  /\ UNCHANGED <<embedders, idxVars, modVars, ctorCalls, ctorFails>>

\* the model is loaded wherever a search passes the empty check, so
\* _ensure_model returns at its first line
NextReaders ==
  \E t \in Callers :
    \/ CallSearchOne(t)
    \/ CallSearchTopk(t)
    \/ SGuard(t)
    \/ EnsureCheck(t)
    \/ EncodeStep(t)
    \/ SSims(t)
    \/ SItem(t)
    \/ STopk(t)

SpecReaders == InitReaders /\ [][NextReaders]_vars

\* -------------- a rebuild next to searches on one index, several callers
\* the items and texts a caller passes to build: a corpus of the knowledge
\* bases, its items numbered in order or reversed
BuildArguments ==
  {<<its, txs>> : its \in ItemLists(2), txs \in {c \in KnowledgeBases : Len(c) = 2}}
  \cup {<<its, txs>> : its \in ItemLists(3),
                        txs \in {c \in KnowledgeBases : Len(c) = 3}}
  \cup {<<<<>>, <<>>>>}

\* a caller that has not called yet calls build(items, texts) on the index,
\* the one build of the run: line 117-125, the length check, the empty
\* branch, or into embed
CallBuild(t) ==
  /\ pc[t] = "idle"
  /\ out[t].status = "none"
  /\ \A u \in Callers : loc[u].call.op # "build" /\ out[u].call.op # "build"
  /\ \E a \in BuildArguments :
     \E call \in {Call("build", TRUE, a[2])} :
       IF LengthsDiffer(a[1], a[2])
         THEN Finish(t, call, "ValueError", <<>>, <<>>)
         ELSE /\ loc' = [loc EXCEPT ![t] =
                         [NoLocals EXCEPT
                            !.call = call, !.items = a[1], !.texts = a[2],
                            !.this = 1, !.self = indexes[1].embedder,
                            !.ctx = "build"]]
              /\ pc' = [pc EXCEPT ![t] =
                          IF a[1] = <<>> THEN "b_empty_items" ELSE "ensure"]
              /\ UNCHANGED out
  /\ UNCHANGED <<embedders, idxVars, modVars, ctorCalls, ctorFails>>

\* the steps of build after the call
BuildStoreStep(t) ==
  \/ BEmptyItems(t)
  \/ BEmptyMatrix(t)
  \/ BEmptyDim(t)
  \/ BItems(t)
  \/ BMatrix(t)
  \/ BDim(t)

\* the steps of search_one and search_topk after the call
SearchOneStepOf(t) ==
  \/ SGuard(t)
  \/ SSims(t)
  \/ SItem(t)
  \/ STopk(t)

NextRebuild ==
  \E t \in Callers :
    \/ CallBuild(t)
    \/ CallSearchOne(t)
    \/ CallSearchTopk(t)
    \/ BuildStoreStep(t)
    \/ SearchOneStepOf(t)
    \/ EmbedderStep(t)

SpecRebuild == InitReaders /\ [][NextRebuild]_vars

\* semantic_search called by one caller at a time: a call is made when no
\* other call is running
CallSearchAlone(t) ==
  /\ \A u \in Callers : pc[u] = "idle"
  /\ CallSearch(t)

NextSearchSeq ==
  \E t \in Callers : CallSearchAlone(t) \/ SearchStep(t) \/ EmbedderStep(t)

SpecSearchSeq == InitSearch /\ [][NextSearchSeq]_vars

\* ---------------------------------------------- properties of SpecIndex
\* the index the operations of SpecIndex run on
index == indexes[1]

\* the rows of its matrix
matrix_rows == index.matrix[1]

\* the set of elements of a sequence
Range(s) == {s[i] : i \in DOMAIN s}

IsSearch(r) == r.op \in {"search_one", "search_topk"}

\* cosine of the query of the last search and row j, from the texts of the
\* last successful build
Score(j) == Dot(EmbedOne(ret.query)[1], EmbedOne(last_build[1][1][2][j])[1])

\* C3: build(items, texts) with len(items) # len(texts) fails with ValueError,
\* leaves items, matrix and dim as they were before the call, whatever the
\* index held, and does not call the embedder.
C3_MismatchRejected ==
  [][(ret'.op = "build" /\ ret'.nitems # ret'.ntexts)
       => /\ ret'.status = "ValueError"
          /\ indexes' = indexes
          /\ embedders' = embedders
          /\ ret'.embedCalls = 0]_vars

\* a mismatched build was rejected on a Built(nonempty) index
C3_Witness ==
  /\ ret.op = "build" /\ ret.nitems # ret.ntexts /\ ret.status = "ValueError"
  /\ is_built(index) /\ Len(index.items) >= 2

\* C4: build([], []) succeeds from any prior state and leaves the index built
\* with zero rows and zero items; every search made while the empty build is
\* the last successful one fails with EmptyIndex (RuntimeError).
C4_EmptyBuild ==
  /\ (ret.op = "build" /\ ret.nitems = 0 /\ ret.ntexts = 0)
       => /\ ret.status = "ok"
          /\ is_built(index)
          /\ matrix_rows = <<>>
          /\ index.items = <<>>
  /\ (IsSearch(ret) /\ last_build[1] = Some(<<<<>>, <<>>>>))
       => /\ ret.status = "RuntimeError"
          /\ ret.value = <<>>

\* a search failed on an index emptied by build([], []) after a non-empty
\* build (the model is loaded only by a non-empty build)
C4_Witness ==
  /\ ret.op = "search_topk" /\ ret.status = "RuntimeError"
  /\ last_build[1] = Some(<<<<>>, <<>>>>)
  /\ embedders[1]._model # None

\* C5: on a non-empty built index search_one returns the item and score of a
\* row whose score is the maximum, and of the lowest such row.
C5_SearchOneFirstMax ==
  (ret.op = "search_one" /\ ret.status = "ok")
    => LET i == ret.rows[1] IN
       /\ i \in DOMAIN index.items
       /\ ret.value = <<<<index.items[i], Score(i)>>>>
       /\ \A j \in DOMAIN index.items : Score(j) <= Score(i)
       /\ \A j \in DOMAIN index.items : j < i => Score(j) < Score(i)

\* search_one answered from a corpus where a later row ties for the maximum
C5_Witness ==
  /\ ret.op = "search_one" /\ ret.status = "ok"
  /\ \E j \in DOMAIN index.items :
       j > ret.rows[1] /\ Score(j) = Score(ret.rows[1])
  /\ \E j \in DOMAIN index.items : Score(j) < Score(ret.rows[1])

\* C6: search_topk(q, 1)[0] is the item and score search_one(q) returns, ties
\* for the maximum included.
C6_Top1Consistency ==
  (ret.op = "search_topk" /\ ret.status = "ok" /\ ret.k = 1)
    => LET i == ArgMax(Sims(EmbedOne(ret.query)[1], matrix_rows)) IN
       ret.value[1] = <<index.items[i], Score(i)>>

\* C7: search_topk returns distinct rows, and no row left out scores strictly
\* higher than a returned row.
C7_ExactTopK ==
  (ret.op = "search_topk" /\ ret.status = "ok")
    => /\ \A a, b \in DOMAIN ret.rows : a # b => ret.rows[a] # ret.rows[b]
       /\ \A a \in DOMAIN ret.rows :
            /\ ret.rows[a] \in DOMAIN index.items
            /\ ret.value[a] = <<index.items[ret.rows[a]], Score(ret.rows[a])>>
       /\ \A j \in DOMAIN index.items \ Range(ret.rows) :
            \A a \in DOMAIN ret.rows : ~(Score(j) > Score(ret.rows[a]))

\* two rows returned, a lower scoring row left out
C7_Witness ==
  /\ ret.op = "search_topk" /\ ret.status = "ok" /\ Len(ret.rows) = 2
  /\ \E j \in DOMAIN index.items \ Range(ret.rows) :
       Score(j) < Score(ret.rows[2])

\* C8 as stated: each result scores strictly higher than the next.
C8_StrictlyDescending ==
  (ret.op = "search_topk" /\ ret.status = "ok")
    => \A p \in 1..(Len(ret.value) - 1) : ret.value[p][2] > ret.value[p + 1][2]

\* C8 amended: no result scores lower than the one that follows it.
C8_Descending ==
  (ret.op = "search_topk" /\ ret.status = "ok")
    => \A p \in 1..(Len(ret.value) - 1) : ret.value[p][2] >= ret.value[p + 1][2]

\* three results, the first two with equal scores, the third lower
C8_Witness ==
  /\ ret.op = "search_topk" /\ ret.status = "ok" /\ Len(ret.value) = 3
  /\ ret.value[1][2] = ret.value[2][2]
  /\ ret.value[2][2] > ret.value[3][2]

\* C9: on a built index of N >= 1 items search_topk(q, k) does not fail on
\* k and returns min(max(k, 1), N) results.
C9_KClamped ==
  (ret.op = "search_topk" /\ is_built(index) /\ Len(index.items) >= 1)
    => /\ ret.status = "ok"
       /\ Len(ret.value) = Min(Max(ret.k, 1), Len(index.items))

\* k above the corpus size returned the whole corpus
C9_Witness ==
  /\ ret.op = "search_topk" /\ ret.status = "ok"
  /\ ret.k > Len(index.items) /\ Len(ret.value) = Len(index.items)
  /\ Len(index.items) >= 2

\* C10: whenever a matrix is present it has len(items) rows, the items are
\* those of the last successful build, and row i is the embedding of the
\* text passed at position i of that build.
C10_Alignment ==
  is_built(index)
    => /\ last_build[1] # None
       /\ Len(matrix_rows) = Len(index.items)
       /\ index.items = last_build[1][1][1]
       /\ Len(last_build[1][1][2]) = Len(matrix_rows)
       /\ \A i \in DOMAIN matrix_rows :
            matrix_rows[i] = EmbedOne(last_build[1][1][2][i])[1]

\* a failing build on an index that holds two rows of different texts
C10_Witness ==
  /\ ret.op = "build" /\ ret.status # "ok"
  /\ is_built(index) /\ Len(index.items) >= 2
  /\ matrix_rows[1] # matrix_rows[2]

\* C11: a successful build(items2, texts2) replaces what the index held: its
\* items are items2, its matrix is the embedding of texts2 and nothing of an
\* earlier build remains, so a build with the arguments of the build before
\* it leaves the index as it was.
C11_BuildReplaces ==
  [][(ret'.op = "build" /\ ret'.status = "ok")
       => LET items2 == last_build'[1][1][1]
              texts2 == last_build'[1][1][2]
          IN
          /\ Len(items2) = ret'.nitems /\ Len(texts2) = ret'.ntexts
          /\ indexes'[1].items = items2
          /\ indexes'[1].matrix = Some(EmbedVecs(texts2))
          /\ indexes'[1].dim
               = Some(IF texts2 = <<>> THEN 1 ELSE Len(Encode(texts2[1])))
          /\ indexes'[1].embedder = indexes[1].embedder
          /\ last_build' = last_build => indexes' = indexes]_vars

\* build([], []) succeeded on an index that held the rows of an earlier
\* build (the model is loaded only by a non-empty build) and left none of them
C11_Witness ==
  /\ ret.op = "build" /\ ret.status = "ok" /\ ret.nitems = 0
  /\ embedders[1]._model # None
  /\ index.items = <<>> /\ matrix_rows = <<>>

\* C12: is_built() is false on a fresh index, true after every successful
\* build, build([], []) included, and no operation, failing ones included,
\* takes a built index back to unbuilt; only a successful build makes an
\* index built.
C12_BuiltForever ==
  /\ ~is_built(index)
  /\ [][/\ is_built(index) => is_built(index')
        /\ (ret'.op = "build" /\ ret'.status = "ok") => is_built(index')
        /\ (~is_built(index) /\ is_built(index'))
             => (ret'.op = "build" /\ ret'.status = "ok")]_vars

\* an index built by build([], []) is still built after a later non-empty
\* build failed to load the model
C12_Witness ==
  /\ is_built(index) /\ index.items = <<>>
  /\ ret.op = "build" /\ ret.status = "LoadError"

\* C20: a search fails with EmptyIndex (RuntimeError) exactly when the index
\* stores no items: on an unbuilt index and on one built from nothing it
\* fails without a call of the embedder, and on an index that stores items it
\* never fails so.
C20_EmptyIndexExactly ==
  IsSearch(ret)
    => /\ ret.status = "RuntimeError" <=> Len(index.items) = 0
       /\ ~is_built(index) => ret.status = "RuntimeError"
       /\ ret.status = "RuntimeError"
            => /\ ret.embedCalls = 0
               /\ ret.value = <<>>
       /\ ret.status # "RuntimeError" => ret.embedCalls = 1

\* search_one failed on an index that was never built, before any model was
\* loaded
C20_Witness ==
  /\ ret.op = "search_one" /\ ret.status = "RuntimeError"
  /\ ~is_built(index)
  /\ embedders[1]._model = None

C1_OneModel ==
  /\ ctorFails = 0 => ctorCalls <= 1
  /\ ctorCalls <= ctorFails + 1
  /\ \A t \in Threads :
       pc[t] = "encode"
         => /\ embedders[1]._model # None
            /\ loc[t].model = embedders[1]._model

\* two threads passed the unlocked check before a model existed: one has
\* built the model and is about to encode, the other now holds the lock
C1_Witness ==
  /\ ctorCalls = 1 /\ ctorFails = 0
  /\ \E t, u \in Threads :
       /\ t # u
       /\ pc[t] = "encode"
       /\ pc[u] = "locked"

\* C18: embed_one(text) returns embed([text])[0], the vector itself and not
\* a batch that contains it (a one-dimensional array).
C18_SingleVector ==
  \A t \in Callers :
    (out[t].call.op = "embed_one" /\ out[t].status = "ok")
      => out[t].shape = <<Len(EmbedVecs(out[t].call.arg)[1])>>

\* C18 as the code has it: embed_one(text) returns embed([text])[0:1], the
\* batch of shape (1, D) whose one row is the vector embed([text])[0].
C18_OneRowBatch ==
  \A t \in Callers :
    (out[t].call.op = "embed_one" /\ out[t].status = "ok")
      => LET batch == EmbedVecs(out[t].call.arg) IN
         /\ out[t].shape = <<1, Len(batch[1])>>
         /\ out[t].value = <<batch[1]>>

\* one thread got its result from embed_one(text) and another from
\* embed([text]), for the same text
C18_Witness ==
  \E t, u \in Callers :
    /\ out[t].call.op = "embed_one" /\ out[t].status = "ok"
    /\ out[u].call.op = "embed" /\ out[u].status = "ok"
    /\ out[u].call.arg = out[t].call.arg
    /\ out[u].shape = out[t].shape

\* C14: once a model load has failed on an Embedder the failure is
\* permanent: no model is stored on it later and no call that needs the model
\* returns a result, even when the constructor would succeed if tried again.
C14_PermanentFailure ==
  ctorFails >= 1
    => /\ \A e \in DOMAIN embedders : embedders[e]._model = None
       /\ \A t \in Callers :
            ~(out[t].status = "ok" /\ out[t].call.arg # <<>>)

\* C15: under fair scheduling every thread that enters _ensure_model comes
\* out of it: it gets a model to encode with, or its call raises the load
\* error; no thread waits for the lock for ever.
C15_NoCallerSuspended ==
  \A t \in Callers :
    (pc[t] = "ensure")
      ~> \/ pc[t] = "encode" /\ loc[t].model # None
         \/ pc[t] = "idle" /\ out[t].status = "LoadError"

\* a thread waits for the lock while the thread that holds it is leaving
\* _ensure_model with the constructor's exception
C15_Witness ==
  \E t, u \in Callers :
    /\ pc[t] = "acquire" /\ pc[u] = "unwind"
    /\ embedders[1]._lock = u

\* -------------------------------------------- properties of SpecSearch
\* every caller has made a call and none is inside one
AllReturned == \A t \in Callers : pc[t] = "idle" /\ out[t].status # "none"

\* C2: once concurrent first callers with valid input are all done, and no
\* model load failed, the process holds one Embedder and one
\* EmbeddingIndex, the model was loaded once and build ran once.
C2_SingleIndex ==
  (/\ AllReturned
   /\ \A t \in Callers : out[t].status = "ok"
   /\ ctorFails = 0)
    => /\ Len(embedders) = 1
       /\ Len(indexes) = 1
       /\ ctorCalls = 1
       /\ buildCalls = 1

\* the strings that hold nothing but spaces
Blank == {"", " ", "  "}

\* a semantic_search call whose argument is not a string, or is blank
IsInvalidCall(call) ==
  /\ call.op = "semantic_search"
  /\ ~call.isstr \/ call.arg[1] \in Blank

\* C13: semantic_search with an empty string, a string of spaces or a value
\* that is no string ends with ValueError in the step that makes the call:
\* the caller never enters _ensure_index, and the step creates no Embedder
\* and no index, scans and builds nothing, loads no model and leaves the
\* lazy singletons as they were.
C13_InvalidInputRejected ==
  [][\A t \in Callers :
       /\ IsInvalidCall(loc'[t].call) => pc'[t] = "idle"
       /\ (out'[t] # out[t] /\ IsInvalidCall(out'[t].call))
            => /\ out'[t].status = "ValueError"
               /\ out'[t].value = <<>>
               /\ pc[t] = "idle"
               /\ UNCHANGED <<embedders, indexes, last_build, _embedder,
                              _index, _built, scanCalls, buildCalls,
                              ctorCalls, ctorFails>>]_vars

\* one caller passed a value that is no string and another a string of
\* spaces; both got ValueError and the module is as it was loaded
C13_Witness ==
  /\ \E t \in Callers : out[t].status = "ValueError" /\ ~out[t].call.isstr
  /\ \E t \in Callers :
       out[t].status = "ValueError" /\ out[t].call.arg = <<"  ">>
  /\ embedders = <<>> /\ indexes = <<>>
  /\ ModuleLoaded

\* a build of some index has succeeded
SomeBuildDone == \E i \in DOMAIN last_build : last_build[i] # None

\* C17: when semantic_search is called by one caller at a time, a call that
\* is answered has found the corpus scanned and the one index built from
\* it, by one scan and one build more than the attempts that failed to load
\* the model; and once a build has succeeded, with an empty corpus too, no
\* step scans, builds or changes the index again.
C17_BuildOnce ==
  [][/\ SomeBuildDone
          => /\ scanCalls' = scanCalls
             /\ buildCalls' = buildCalls
             /\ indexes' = indexes
             /\ last_build' = last_build
     /\ \A t \in Callers :
          out'[t].status \in {"ok", "RuntimeError"}
            => /\ _built'
               /\ scanCalls' = ctorFails' + 1
               /\ buildCalls' = ctorFails' + 1
               /\ Len(indexes') = 1
               /\ indexes'[1].items = [i \in DOMAIN kb |-> i]
               /\ indexes'[1].matrix = Some(EmbedVecs(kb))]_vars

\* two calls, one after the other, were answered from a corpus scanned and
\* built once
C17_Witness ==
  /\ \A t \in Callers : pc[t] = "idle" /\ out[t].status = "ok"
  /\ scanCalls = 1 /\ buildCalls = 1
  /\ _built

\* what search_one or search_topk returns for this call when nothing else
\* runs
AloneResult(call) ==
  LET ix == indexes[1]
      sims == Sims(EmbedOne(call.arg[1])[1], ix.matrix[1])
  IN
  IF call.op = "search_one"
    THEN <<ix.items[ArgMax(sims)], sims[ArgMax(sims)]>>
    ELSE LET topk_idx == CHOOSE s \in NumpyPick(ArgPartitionTopK(
                                    sims, ClampK(call.k, Len(ix.items)))) : TRUE
             topk_sorted == SortedDesc(topk_idx, sims)
         IN [p \in DOMAIN topk_sorted |->
               <<ix.items[topk_sorted[p]], sims[topk_sorted[p]]>>]

\* C19: search_one and search_topk only read the index: no step of a search,
\* returning or failing, changes items, matrix or dim, so each of the
\* searches running at the same time on an index nobody builds returns what
\* it returns when run alone, and a search that fails returns nothing.
C19_SearchReadOnly ==
  [][/\ indexes' = indexes
     /\ \A t \in Callers :
          out'[t].status # "none"
            => IF IsEmpty(indexes[1])
                 THEN out'[t].status = "RuntimeError" /\ out'[t].value = <<>>
                 ELSE /\ out'[t].status = "ok"
                      /\ out'[t].value = AloneResult(out'[t].call)]_vars

\* search_one and search_topk ran at the same time on a built index and both
\* returned
C19_Witness ==
  /\ \E t \in Callers : out[t].call.op = "search_one" /\ out[t].status = "ok"
  /\ \E t \in Callers :
       /\ out[t].call.op = "search_topk" /\ out[t].status = "ok"
       /\ Len(out[t].value) = 2
  /\ Len(indexes[1].items) = 3

\* the number of rows of the matrix an index holds
Rows(ix) == IF ix.matrix = None THEN 0 ELSE Len(ix.matrix[1])

\* thread t is inside a call of build
InBuild(t) == pc[t] # "idle" /\ loc[t].call.op = "build"

\* the callers that have called build
Builders == {t \in Callers : InBuild(t) \/ out[t].call.op = "build"}

\* C21: build stores items and matrix in two steps and takes no lock, so
\* while the one build of a run stands between the two the index holds the
\* items of the new corpus next to the rows of the old one, and a search
\* running then reads both: the index is misaligned only in that window,
\* and only a search next to a build ends out of range.
C21_TornInsideBuild ==
  /\ Len(indexes[1].items) # Rows(indexes[1])
       => \E t \in Callers :
            InBuild(t) /\ pc[t] \in {"b_matrix", "b_empty_matrix"}
  /\ \A t \in Callers :
       (out[t].call.op \in {"search_one", "search_topk"}
        /\ out[t].status \in {"IndexError", "ValueError"})
         => Builders # {}

\* a build of the items 3, 2, 1 with the texts dog, cat, cat stands between
\* its two assignments on an index built from cat, dog; search_one("cats")
\* has scored the old rows and returned item 3, whose text is dog, with the
\* score of the row of cat
C21_Witness ==
  \E t, u \in Callers :
    /\ out[t].call.op = "search_one" /\ out[t].call.arg = <<"cats">>
    /\ out[t].status = "ok" /\ out[t].value[1] = 3
    /\ out[t].value[2] = Dot(EmbedOne("cats")[1], EmbedOne("cat")[1])
    /\ kb = <<"cat", "dog">>
    /\ InBuild(u) /\ pc[u] = "b_matrix"
    /\ loc[u].items = <<3, 2, 1>> /\ loc[u].texts = <<"dog", "cat", "cat">>

\* the scores of the rows of the built knowledge base for a query
KbSims(q) == Sims(EmbedOne(q)[1], EmbedVecs(kb))

\* C22: however concurrent semantic_search calls interleave, a call that
\* returns a result read its scores and its item from an index that held
\* every item of the knowledge base, row i being the embedding of item i,
\* and returns the best match and the rounded score that a call made alone
\* after the build returns.
C22_ResultFromAlignedIndex ==
  \A t \in Callers :
    /\ pc[t] = "s_item"
         => /\ loc[t].sims = KbSims(loc[t].query)
            /\ indexes[loc[t].index].items = [i \in DOMAIN kb |-> i]
            /\ indexes[loc[t].index].matrix = Some(EmbedVecs(kb))
    /\ out[t].status = "ok"
         => LET sims == KbSims(out[t].call.arg[1]) IN
            out[t].value = <<ArgMax(sims), Round6(sims[ArgMax(sims)])>>
    /\ out[t].status \notin {"IndexError", "AttributeError"}

\* a call returned its result while another caller was still storing the
\* rows of a second build
C22_Witness ==
  \E t, u \in Callers :
    /\ out[t].status = "ok"
    /\ pc[u] \in {"b_items", "b_matrix", "b_dim"}
    /\ buildCalls = 2

\* C23: when embed raises inside a build of a non-empty corpus, the call
\* ends with that error, the index keeps the items, matrix and dim it had
\* when build was called (those of a new index) and _built stays False;
\* the next call that is answered has scanned and built again.
C23_BuildAllOrNothing ==
  [][\A t \in Callers :
       /\ (out'[t] # out[t] /\ out'[t].status = "LoadError")
            => /\ loc[t].ctx = "build" /\ loc[t].texts # <<>>
               /\ Len(loc[t].items) = Len(loc[t].texts)
               /\ indexes' = indexes
               /\ indexes'[loc[t].this].items = <<>>
               /\ indexes'[loc[t].this].matrix = None
               /\ indexes'[loc[t].this].dim = None
               /\ last_build' = last_build
               /\ ~_built'
       /\ (out'[t].status = "ok" /\ ctorFails' >= 1)
            => /\ scanCalls' = ctorFails' + 1
               /\ buildCalls' = ctorFails' + 1
               /\ _built']_vars

\* the first call ended with the load error of its build and the second
\* call, which scanned and built again, was answered
C23_Witness ==
  /\ \E t \in Callers : out[t].status = "LoadError"
  /\ \E t \in Callers : out[t].status = "ok"
  /\ scanCalls = 2 /\ buildCalls = 2
  /\ Len(indexes) = 1 /\ Len(indexes[1].items) = Len(kb)

====
